---------------------------- MODULE Spec2Model ----------------------------
(***************************************************************************)
(* Step execution of the Goldcast cog: the two validation handlers         *)
(* EventMemberFieldEqualsStep and EventFieldEqualsStep.                     *)
(*                                                                         *)
(* One execution of executeStep is followed from the call to the returned  *)
(* response (or to the rejection of the promise executeStep returns).      *)
(* The fetcher (client.getEventMembers / client.getEvents) is the          *)
(* environment: it resolves with a value or rejects with an error.         *)
(*                                                                         *)
(* Modelled apart, each under a specification of its own: executions in    *)
(* flight on one instance (SpecConc), the ClientWrapper constructor and    *)
(* the requests of its wrappers (SpecClient, SpecRequests),                *)
(* CachingClientWrapper (SpecCache, SpecLookup, SpecOps, SpecKeys), steps  *)
(* with a falsy expectation (SpecFalsy) and the dispatch of a request to   *)
(* its handler (SpecDispatch).                                             *)
(*                                                                         *)
(* JavaScript values are strings in the model.  Undefined and Null are     *)
(* two sentinels; a number is its decimal text.                            *)
(*                                                                         *)
(* The fields of every record are written in the order TLC keeps them in   *)
(* (that of a name's first occurrence in the module), so that a record     *)
(* value is in normal form as it is built, whichever worker builds it.     *)
(***************************************************************************)
EXTENDS Naturals, Sequences, FiniteSets, TLC

\* ------------------------------------------------------------------ bounds

\* Longest list getEvents resolves with.
MaxListLen == 2

\* Largest __stepOrder a step carries.
MaxStepOrder == 1

\* ------------------------------------------------------------- JS values

Undefined == "<undefined>"
Null == "<null>"

\* The number 0 and the boolean false, as a step's data can hold them.
Zero == "<0>"
False == "<false>"

\* `${v}` : the text a template literal gives for v.
TemplateString(v) ==
  IF v = Undefined THEN "undefined" ELSE IF v = Null THEN "null"
  ELSE IF v = Zero THEN "0" ELSE IF v = False THEN "false" ELSE v

\* ------------------------------------------------------------ step input

ExpectationInputs == {Undefined, Null, "Expected Value", "Not Expected Value"}
IdInputs == {Undefined, "e1", "e2"}
OperatorInputs == {Undefined, "", "be", "not be", "be set", "not be set", "equal"}
FieldInputs == {Undefined, "someField", "title"}
StepOrderInputs == {Undefined} \cup {ToString(n) : n \in 0..MaxStepOrder}

Handlers == {"member", "event"}

\* The payload of a step: id is memberId or eventId, stepOrder is __stepOrder.
StepDataSet ==
  [expectation : ExpectationInputs, id : IdInputs, operator : OperatorInputs,
   field : FieldInputs, stepOrder : StepOrderInputs]

EmptyStepData ==
  [expectation |-> Undefined, id |-> Undefined, operator |-> Undefined,
   field |-> Undefined, stepOrder |-> Undefined]

\* A Step message: with a data struct, or with none.
StepSet ==
  [hasData : {TRUE}, data : StepDataSet] \cup [hasData : {FALSE}, data : {EmptyStepData}]

\* Steps whose expectation is defined but falsy ('', 0, false), or absent.
FalsyExpectationInputs == {"", Zero, False, Undefined, Null}

FalsyStepSet ==
  [hasData : {TRUE},
   data : [expectation : FalsyExpectationInputs, id : IdInputs,
           operator : OperatorInputs, field : FieldInputs,
           stepOrder : StepOrderInputs]]

\* step.getData() ? step.getData().toJavaScript() : {}
ToStepData(s) == IF s.hasData THEN s.data ELSE EmptyStepData

\* ----------------------------------------------------- remote entities

\* An entity is a JSON object; a key it does not have maps to Undefined.
EntityFields == {"id", "someField", "title"}

EntitySet ==
  [id : {Undefined, "e1", "e2"}, someField : {Undefined, Null, "Expected Value"},
   title : {"Some Title"}]

\* The object {} : no own property at all.
EmptyEntity == [id |-> Undefined, someField |-> Undefined, title |-> Undefined]

\* A presence test written as obj[key] != null: a null value counts as missing.
HasOwnPropertyNullAsMissing(ent, key) ==
  key \in EntityFields /\ ent[key] \notin {Undefined, Null}

\* obj.hasOwnProperty(key); an absent key is looked up as "undefined".
HasOwnProperty(ent, key) == key \in EntityFields /\ ent[key] # Undefined

\* obj[key]
GetProperty(ent, key) == IF key \in EntityFields THEN ent[key] ELSE Undefined

\* What a fetcher call resolves with.  kind "entity" carries one entity in
\* ents, kind "list" carries the list, kind "envelope" is a non-array object
\* such as {body: []}, and "null" / "undefined" are the falsy results.
ListsUpTo(n) == UNION {[1..k -> EntitySet] : k \in 0..n}

Resolved(kind, ents) == [kind |-> kind, ents |-> ents]

MemberResults ==
  {Resolved("null", <<>>), Resolved("undefined", <<>>), Resolved("entity", <<EmptyEntity>>)}
    \cup {Resolved("entity", <<e>>) : e \in EntitySet}

EventResults ==
  {Resolved("null", <<>>), Resolved("envelope", <<>>)}
    \cup {Resolved("list", l) : l \in ListsUpTo(MaxListLen)}

NoResult == Resolved("undefined", <<>>)

Truthy(data) == data.kind \notin {"null", "undefined"}

\* ----------------------------------------------------------------- errors

NotFoundStatus == 404

\* An error value: etype is the class, status and body are those of
\* e.response (status 0: e has no response).
Err(etype, message, status, body) ==
  [etype |-> etype, message |-> message, status |-> status, body |-> body]

NoErr == Err("none", "", 0, "")

JsonBody == "{\"description\":\"Not found.\"}"
HtmlBody == "<html>Not Found</html>"

\* What the fetcher rejects (or throws) with.
FetchErrors ==
  { Err("Error", "Network Error", 0, ""),
    Err("HttpError", "Request failed with status code 404", NotFoundStatus, JsonBody),
    Err("HttpError", "Request failed with status code 404", NotFoundStatus, HtmlBody),
    Err("HttpError", "Request failed with status code 500", 500, JsonBody),
    Err("nullish", "", 0, "") }

\* JSON.parse(body): the parsed object's description, or a SyntaxError.
JsonParse(body) ==
  IF body = JsonBody THEN [ok |-> TRUE, description |-> "Not found."]
  ELSE [ok |-> FALSE, description |-> Undefined]

\* JSON.stringify({key: v}) for a string v; an undefined value is left out.
JsonStringify(key, v) ==
  IF v = Undefined THEN "{}"
  ELSE IF v = Null THEN "{\"" \o key \o "\":null}"
  ELSE "{\"" \o key \o "\":\"" \o v \o "\"}"


\* ------------------------------------------------- responses and records

\* A RunStepResponse.
Response(outcome, messageFormat, messageArgs, records) ==
  [outcome |-> outcome, messageFormat |-> messageFormat,
   messageArgs |-> messageArgs, records |-> records]

NoResponse == Response("NONE", "", <<>>, <<>>)

\* BaseStep.pass / fail / error: the response envelope of each outcome.
Pass(messageFormat, messageArgs, records) ==
  Response("PASSED", messageFormat, messageArgs, records)

Fail(messageFormat, messageArgs, records) ==
  Response("FAILED", messageFormat, messageArgs, records)

Error(messageFormat, messageArgs) ==
  Response("ERROR", messageFormat, messageArgs, <<>>)

\* BaseStep.keyValue: a key-value record wrapping a snapshot of the entity.
KeyValue(id, name, ent) == [id |-> id, name |-> name, keyValue |-> ent]

\* -------------------------------------------------------------- comparator

baseOperators ==
  <<"be", "not be", "contain", "not contain", "be greater than", "be less than",
    "be set", "not be set", "be one of", "not be one of", "match", "not match">>

ValidOperators == {baseOperators[i] : i \in 1..Len(baseOperators)}

RECURSIVE Join(_, _)
\* seq.join(sep)
Join(seq, sep) ==
  IF Len(seq) = 0 THEN ""
  ELSE IF Len(seq) = 1 THEN seq[1]
  ELSE seq[1] \o sep \o Join(Tail(seq), sep)

\* The comparator's verdict, or the error it throws.  Only the operators of
\* OperatorInputs are evaluated.
Compare(operator, actual, expected) ==
  CASE operator \notin ValidOperators ->
         [err |-> Err("UnknownOperatorError",
                      "Unknown operator: " \o TemplateString(operator) \o ".", 0, ""),
          valid |-> FALSE]
    [] operator \in {"be set", "not be set"} ->
         IF expected \notin {Undefined, Null}
         THEN [err |-> Err("InvalidOperandError",
                           "The operator " \o operator \o " takes no expected value.", 0, ""),
               valid |-> FALSE]
         ELSE [err |-> NoErr,
               valid |-> ((actual \notin {Undefined, Null, ""}) <=> (operator = "be set"))]
    [] operator = "be" -> [err |-> NoErr, valid |-> (actual = expected)]
    [] operator = "not be" -> [err |-> NoErr, valid |-> (actual # expected)]

\* BaseStep.assert: the comparison with its message.
StepAssert(operator, actual, expected, field) ==
  LET c == Compare(operator, actual, expected) IN
  [message |-> (IF c.valid THEN "The " ELSE "Expected ") \o TemplateString(field)
                 \o " field " \o (IF c.valid THEN "does " ELSE "to ")
                 \o TemplateString(operator) \o " " \o TemplateString(expected)
                 \o ", actual value: " \o TemplateString(actual),
   err |-> c.err, valid |-> c.valid]

\* The arguments of one comparator call.
CmpArgs(operator, actual, expected, field) ==
  [operator |-> operator, field |-> field, actual |-> actual, expected |-> expected]

\* ------------------------------------------------- how a code path ends

\* A code path ends by returning a response or by throwing an error; cmp
\* lists the comparator calls it made.
Returns(resp, cmp) == [err |-> NoErr, resp |-> resp, cmp |-> cmp, threw |-> FALSE]

Throws(err, cmp) == [err |-> err, resp |-> NoResponse, cmp |-> cmp, threw |-> TRUE]

\* A catch block without its UnknownOperatorError branch.
IsUnknownOperatorErrorNever(e) == FALSE

\* e instanceof util.UnknownOperatorError
IsUnknownOperatorError(e) == e.etype = "UnknownOperatorError"

\* A catch block without its InvalidOperandError branch.
IsInvalidOperandErrorNever(e) == FALSE

\* e instanceof util.InvalidOperandError
IsInvalidOperandError(e) == e.etype = "InvalidOperandError"

\* The 404 test written as e.response alone: any HTTP error passes it.
HasAnyResponse(e) == e.status # 0

\* e.response && e.response.status === 404
HasNotFoundStatus(e) == e.status = NotFoundStatus

\* What became of the fetcher call.
Fetch(how, data, err) == [data |-> data, err |-> err, how |-> how]

NotFetched == Fetch("none", NoResult, NoErr)

\* The snapshot a record wraps: the entity, or nothing for a falsy result.
Snapshot(data) == IF data.kind = "entity" THEN data.ents[1] ELSE EmptyEntity

\* The default written as stepOrder || 1: every falsy order becomes 1.
StepOrderTextOrOne(stepOrder) ==
  IF stepOrder \in {Undefined, Null, "0"} THEN "1" ELSE TemplateString(stepOrder)

\* The text of the defaulted parameter (stepOrder = 1): only undefined
\* takes the default.
StepOrderText(stepOrder) ==
  IF stepOrder = Undefined THEN "1" ELSE TemplateString(stepOrder)

\* ------------------------------------------- EventMemberFieldEqualsStep

\* const operator: string = stepData.operator;
MemberOperator(sd) == sd.operator

\* The input check without its undefined test: only null counts as missing.
MemberInputCheckFailsNullOnly(sd) ==
  /\ sd.expectation = Null
  /\ ~(MemberOperator(sd) = "be set" \/ MemberOperator(sd) = "not be set")

\* The input check: no expectation, and not a presence operator.
MemberInputCheckFails(sd) ==
  /\ (sd.expectation = Null \/ sd.expectation = Undefined)
  /\ ~(MemberOperator(sd) = "be set" \/ MemberOperator(sd) = "not be set")

MemberInputError(sd) ==
  Error("The operator '%s' requires an expected value. Please provide one.",
        <<MemberOperator(sd)>>)

MemberCreateRecords(member, stepOrder) ==
  << KeyValue("member", "Checked Member", member),
     KeyValue("member." \o StepOrderText(stepOrder),
              "Checked Event Member from Step " \o StepOrderText(stepOrder), member) >>

\* The not-found branch answering with this.error instead of this.fail.
MemberNotFoundAsError(sd) ==
  Error("Couldn't find a member associated with event id %s", <<sd.id>>)

\* The not-found branch handing on the records built before it.
MemberNotFoundWithRecords(sd) ==
  Fail("Couldn't find a member associated with event id %s", <<sd.id>>,
       MemberCreateRecords(EmptyEntity, sd.stepOrder))

\* The else-else branch: no member came back.
MemberNotFound(sd) ==
  Fail("Couldn't find a member associated with event id %s", <<sd.id>>, <<>>)

\* The verdict with the branches of the conditional swapped.
MemberVerdictSwapped(result, records) ==
  IF result.valid THEN Fail(result.message, <<>>, records)
  ELSE Pass(result.message, <<>>, records)

\* The verdict of the comparison as a response.
MemberVerdict(result, records) ==
  IF result.valid THEN Pass(result.message, <<>>, records)
  ELSE Fail(result.message, <<>>, records)

\* The try block once getEventMembers has resolved with data.
MemberOnResolved(sd, data) ==
  LET member == Snapshot(data)
      records == MemberCreateRecords(member, sd.stepOrder)
  IN IF Truthy(data) /\ HasOwnProperty(member, sd.field)
     THEN LET actual == GetProperty(member, sd.field)
              cmp == <<CmpArgs(MemberOperator(sd), actual, sd.expectation, sd.field)>>
              result == StepAssert(MemberOperator(sd), actual, sd.expectation, sd.field)
          IN IF result.err # NoErr THEN Throws(result.err, cmp)
             ELSE Returns(MemberVerdict(result, records), cmp)
     ELSE IF Truthy(data) /\ ~HasOwnProperty(member, sd.field)
          THEN Returns(Fail("Found the member with event id %s, but there was no %s field.",
                            <<sd.id, sd.field>>, records), <<>>)
          ELSE Returns(MemberNotFound(sd), <<>>)

\* The catch block.
MemberCatch(sd, e) ==
  IF IsUnknownOperatorError(e)
  THEN Returns(Error("%s Please provide one of: %s",
                     <<e.message, Join(baseOperators, ", ")>>), <<>>)
  ELSE IF IsInvalidOperandError(e)
  THEN Returns(Error(e.message, <<>>), <<>>)
  ELSE IF e.etype = "nullish"
  THEN Throws(Err("TypeError", "Cannot read property 'response' of undefined", 0, ""), <<>>)
  ELSE IF HasNotFoundStatus(e)
  THEN IF JsonParse(e.body).ok
       THEN Returns(Error(TemplateString(JsonParse(e.body).description) \o ": %s",
                          <<JsonStringify("memberId", sd.id)>>), <<>>)
       ELSE Throws(Err("SyntaxError", "Unexpected token < in JSON at position 0", 0, ""), <<>>)
  ELSE Returns(Error("There was an error during validation of member field: %s",
                     <<e.message>>), <<>>)

\* try { ... } catch (e) { ... } around the fetcher call and what follows it.
MemberTryCatch(sd, fetch) ==
  LET t == IF fetch.how = "rejected" THEN Throws(fetch.err, <<>>)
           ELSE MemberOnResolved(sd, fetch.data)
  IN IF t.threw THEN [MemberCatch(sd, t.err) EXCEPT !.cmp = t.cmp] ELSE t

\* ------------------------------------------------- EventFieldEqualsStep

\* const operator: string = stepData.operator || 'be';
EventOperator(sd) ==
  IF sd.operator \in {Undefined, Null, ""} THEN "be" ELSE sd.operator

\* The input check with a falsy test: !expectedValue.
EventInputCheckFailsFalsy(sd) ==
  /\ sd.expectation \in {Null, Undefined, "", Zero, False}
  /\ ~(EventOperator(sd) = "be set" \/ EventOperator(sd) = "not be set")

EventInputCheckFails(sd) ==
  /\ (sd.expectation = Null \/ sd.expectation = Undefined)
  /\ ~(EventOperator(sd) = "be set" \/ EventOperator(sd) = "not be set")

EventInputError(sd) ==
  Error("The operator '%s' requires an expected value. Please provide one.",
        <<EventOperator(sd)>>)

EventCreateRecords(event, stepOrder) ==
  << KeyValue("event", "Checked Event", event),
     KeyValue("event." \o StepOrderText(stepOrder),
              "Checked Event from Step " \o StepOrderText(stepOrder), event) >>

\* A filter that takes any resolved value for a list.
EventFilterThrowsNever(data) == FALSE

\* data.filter is a function only of an array: a TypeError otherwise.
EventFilterThrows(data) == data.kind # "list"

\* data.filter((d: any) => d.id === eventId)
EventMatchingRecords(data, eventId) ==
  SelectSeq(data.ents, LAMBDA d : d.id = eventId)

\* The ambiguity test off by one: matchingRecords.length > 2.
EventAmbiguousOverTwo(matchingRecords) == Len(matchingRecords) > 2

\* matchingRecords.length > 1
EventAmbiguous(matchingRecords) == Len(matchingRecords) > 1

\* The try block once getEvents has resolved with data.
EventOnResolved(sd, data) ==
  IF EventFilterThrows(data)
  THEN Throws(Err("TypeError", "data.filter is not a function", 0, ""), <<>>)
  ELSE
  LET matchingRecords == EventMatchingRecords(data, sd.id) IN
  IF Len(matchingRecords) = 0
  THEN Returns(Fail("Couldn't find a event with id %s", <<sd.id>>, <<>>), <<>>)
  ELSE IF EventAmbiguous(matchingRecords)
  THEN Returns(Fail("Found more than one record with id %s", <<sd.id>>, <<>>), <<>>)
  ELSE
  LET event == matchingRecords[1]
      records == EventCreateRecords(event, sd.stepOrder)
  IN IF HasOwnProperty(event, sd.field)
     THEN LET actual == GetProperty(event, sd.field)
              cmp == <<CmpArgs(EventOperator(sd), actual, sd.expectation, sd.field)>>
              result == StepAssert(EventOperator(sd), actual, sd.expectation, sd.field)
          IN IF result.err # NoErr THEN Throws(result.err, cmp)
             ELSE IF result.valid
                  THEN Returns(Pass(result.message, <<>>, records), cmp)
                  ELSE Returns(Fail(result.message, <<>>, records), cmp)
     ELSE Returns(Fail("Found the event with id %s, but there was no %s field.",
                       <<sd.id, sd.field>>, records), <<>>)

\* A catch block that answers every error with this.fail.
EventCatchAsFail(sd, e) ==
  Returns(Fail("There was an error while validating this event field: %s",
               <<e.message>>, <<>>), <<>>)

\* The catch block.
EventCatch(sd, e) ==
  IF IsUnknownOperatorError(e)
  THEN Returns(Error("%s Please provide one of: %s",
                     <<e.message, Join(baseOperators, ", ")>>), <<>>)
  ELSE IF IsInvalidOperandError(e)
  THEN Returns(Error(e.message, <<>>), <<>>)
  ELSE IF e.etype = "nullish"
  THEN Throws(Err("TypeError", "Cannot read property 'response' of undefined", 0, ""), <<>>)
  ELSE IF HasNotFoundStatus(e)
  THEN IF JsonParse(e.body).ok
       THEN Returns(Error(TemplateString(JsonParse(e.body).description) \o ": %s",
                          <<JsonStringify("eventId", sd.id)>>), <<>>)
       ELSE Throws(Err("SyntaxError", "Unexpected token < in JSON at position 0", 0, ""), <<>>)
  ELSE Returns(Error("There was an error while validating this event field: %s",
                     <<e.message>>), <<>>)

EventTryCatch(sd, fetch) ==
  LET t == IF fetch.how = "rejected" THEN Throws(fetch.err, <<>>)
           ELSE EventOnResolved(sd, fetch.data)
  IN IF t.threw THEN [EventCatch(sd, t.err) EXCEPT !.cmp = t.cmp] ELSE t

\* ---------------------------------------------------------- state machine

VARIABLES
  handler,     \* the handler whose executeStep runs: "member" or "event"
  step,        \* the Step message executeStep was called with
  pc,          \* "start", "awaitFetch", "returned" or "rejected"
  fetchCalls,  \* calls made to the fetcher during the execution
  fetched,     \* what became of the fetcher call
  cmpLog,      \* the comparator calls made, with their arguments
  response,    \* the response executeStep returned
  thrown,      \* the error executeStep's promise rejected with
  events       \* what the execution has done so far, in order

VARIABLES
  stepId,      \* the stepId of the dispatched request
  instance,    \* the handler instance the concurrent executions share
  runs,        \* the executions in flight on that instance
  defaults,    \* the HTTP client's defaults (base URL and headers)
  constructed, \* how each ClientWrapper construction ended
  sent,        \* the last request the HTTP client sent for a wrapper
  remote,      \* the data the remote service holds
  redis,       \* the cache store: key -> stored text
  served,      \* per lookup, the fetched value last written to the store
  cacheCall,   \* the last call made through CachingClientWrapper
  ops,         \* the cache operations in flight, each at one of its awaits
  keyUse       \* two uses of the cache and the key each of them computes

coreVars ==
  <<handler, step, pc, fetchCalls, fetched, cmpLog, response, thrown, events>>

dispatchVars == <<stepId>>

concVars == <<instance, runs>>

clientVars == <<defaults, constructed, sent>>

cacheVars == <<remote, redis, served, cacheCall, ops, keyUse>>

vars == <<coreVars, dispatchVars, concVars, clientVars, cacheVars>>

\* The parts of the program a specification leaves out stay as they are.
CoreIdle ==
  /\ handler = "none" /\ step = <<>> /\ pc = "idle" /\ fetchCalls = 0
  /\ fetched = NotFetched /\ cmpLog = <<>> /\ response = NoResponse
  /\ thrown = NoErr /\ events = <<>>

DispatchIdle == stepId = "direct"

ConcIdle == instance = <<>> /\ runs = <<>>

ClientIdle == defaults = <<>> /\ constructed = <<>> /\ sent = <<>>

CacheIdle ==
  /\ remote = <<>> /\ redis = <<>> /\ served = <<>> /\ cacheCall = <<>>
  /\ ops = <<>> /\ keyUse = <<>>

\* The events of one execution, in the order the code reaches them.
InputCheckEvent == "inputCheck"
FetchCallEvent == "fetchCall"
FetchResolvedEvent == "fetchResolved"
FetchRejectedEvent == "fetchRejected"
RecordsEvent == "records"
CompareEvent == "compare"
ResponseEvent == "response"
ThrowEvent == "throw"

\* How an execution ends: with a response, or with its promise rejected.
EndEvent(c) == IF c.threw THEN ThrowEvent ELSE ResponseEvent

\* The member try block with the comparison made before the records.
MemberTryEventsCompareFirst(sd, data) ==
  (IF Truthy(data) /\ HasOwnProperty(Snapshot(data), sd.field)
   THEN <<CompareEvent>> ELSE <<>>) \o <<RecordsEvent>>

\* What the member try block does once getEventMembers has resolved:
\* createRecords (line 67) whatever came back, then this.assert (line 70)
\* when the field is there.
MemberTryEvents(sd, data) ==
  <<RecordsEvent>> \o
  (IF Truthy(data) /\ HasOwnProperty(Snapshot(data), sd.field)
   THEN <<CompareEvent>> ELSE <<>>)

\* What the event try block does once getEvents has resolved: the filter
\* (line 187) and the two early returns come first, createRecords (line 201)
\* only for a single match, then this.assert (line 204).
EventTryEvents(sd, data) ==
  IF EventFilterThrows(data) THEN <<>>
  ELSE LET matchingRecords == EventMatchingRecords(data, sd.id) IN
       IF Len(matchingRecords) = 0 \/ EventAmbiguous(matchingRecords) THEN <<>>
       ELSE <<RecordsEvent>> \o
            (IF HasOwnProperty(matchingRecords[1], sd.field)
             THEN <<CompareEvent>> ELSE <<>>)

Init ==
  /\ handler \in Handlers
  /\ step \in StepSet
  /\ pc = "start"
  /\ fetchCalls = 0
  /\ fetched = NotFetched
  /\ cmpLog = <<>>
  /\ response = NoResponse
  /\ thrown = NoErr
  /\ events = <<>>
  /\ DispatchIdle /\ ConcIdle /\ ClientIdle /\ CacheIdle

\* executeStep ends with the completion c.
Finish(c) ==
  /\ pc' = IF c.threw THEN "rejected" ELSE "returned"
  /\ response' = c.resp
  /\ thrown' = c.err
  /\ cmpLog' = c.cmp

\* EventMemberFieldEqualsStep.executeStep up to its await.
MemberExecuteStep ==
  /\ handler = "member" /\ pc = "start"
  /\ IF MemberInputCheckFails(ToStepData(step))
     THEN /\ Finish(Returns(MemberInputError(ToStepData(step)), <<>>))
          /\ events' = events \o <<InputCheckEvent, ResponseEvent>>
          /\ UNCHANGED <<fetchCalls, fetched>>
     ELSE /\ pc' = "awaitFetch"
          /\ fetchCalls' = fetchCalls + 1
          /\ events' = events \o <<InputCheckEvent, FetchCallEvent>>
          /\ UNCHANGED <<fetched, cmpLog, response, thrown>>
  /\ UNCHANGED <<handler, step>>
  /\ UNCHANGED <<dispatchVars, concVars, clientVars, cacheVars>>

\* getEventMembers resolves and executeStep runs to its end.
GetEventMembersResolves ==
  /\ handler = "member" /\ pc = "awaitFetch"
  /\ \E data \in MemberResults :
       /\ fetched' = Fetch("resolved", data, NoErr)
       /\ Finish(MemberTryCatch(ToStepData(step), fetched'))
       /\ events' = events \o <<FetchResolvedEvent>>
                      \o MemberTryEvents(ToStepData(step), data)
                      \o <<EndEvent(MemberTryCatch(ToStepData(step), fetched'))>>
  /\ UNCHANGED <<handler, step, fetchCalls>>
  /\ UNCHANGED <<dispatchVars, concVars, clientVars, cacheVars>>

\* getEventMembers rejects (or throws) and executeStep runs to its end.
GetEventMembersRejects ==
  /\ handler = "member" /\ pc = "awaitFetch"
  /\ \E e \in FetchErrors :
       /\ fetched' = Fetch("rejected", NoResult, e)
       /\ Finish(MemberTryCatch(ToStepData(step), fetched'))
       /\ events' = events \o <<FetchRejectedEvent>>
                      \o <<EndEvent(MemberTryCatch(ToStepData(step), fetched'))>>
  /\ UNCHANGED <<handler, step, fetchCalls>>
  /\ UNCHANGED <<dispatchVars, concVars, clientVars, cacheVars>>

\* EventFieldEqualsStep.executeStep up to its await.
EventExecuteStep ==
  /\ handler = "event" /\ pc = "start"
  /\ IF EventInputCheckFails(ToStepData(step))
     THEN /\ Finish(Returns(EventInputError(ToStepData(step)), <<>>))
          /\ events' = events \o <<InputCheckEvent, ResponseEvent>>
          /\ UNCHANGED <<fetchCalls, fetched>>
     ELSE /\ pc' = "awaitFetch"
          /\ fetchCalls' = fetchCalls + 1
          /\ events' = events \o <<InputCheckEvent, FetchCallEvent>>
          /\ UNCHANGED <<fetched, cmpLog, response, thrown>>
  /\ UNCHANGED <<handler, step>>
  /\ UNCHANGED <<dispatchVars, concVars, clientVars, cacheVars>>

GetEventsResolves ==
  /\ handler = "event" /\ pc = "awaitFetch"
  /\ \E data \in EventResults :
       /\ fetched' = Fetch("resolved", data, NoErr)
       /\ Finish(EventTryCatch(ToStepData(step), fetched'))
       /\ events' = events \o <<FetchResolvedEvent>>
                      \o EventTryEvents(ToStepData(step), data)
                      \o <<EndEvent(EventTryCatch(ToStepData(step), fetched'))>>
  /\ UNCHANGED <<handler, step, fetchCalls>>
  /\ UNCHANGED <<dispatchVars, concVars, clientVars, cacheVars>>

GetEventsRejects ==
  /\ handler = "event" /\ pc = "awaitFetch"
  /\ \E e \in FetchErrors :
       /\ fetched' = Fetch("rejected", NoResult, e)
       /\ Finish(EventTryCatch(ToStepData(step), fetched'))
       /\ events' = events \o <<FetchRejectedEvent>>
                      \o <<EndEvent(EventTryCatch(ToStepData(step), fetched'))>>
  /\ UNCHANGED <<handler, step, fetchCalls>>
  /\ UNCHANGED <<dispatchVars, concVars, clientVars, cacheVars>>

Next ==
  \/ MemberExecuteStep
  \/ GetEventMembersResolves
  \/ GetEventMembersRejects
  \/ EventExecuteStep
  \/ GetEventsResolves
  \/ GetEventsRejects

Spec == Init /\ [][Next]_vars

\* executeStep called with a step whose expectation is falsy.
FalsyInit ==
  /\ handler \in Handlers
  /\ step \in FalsyStepSet
  /\ pc = "start"
  /\ fetchCalls = 0
  /\ fetched = NotFetched
  /\ cmpLog = <<>>
  /\ response = NoResponse
  /\ thrown = NoErr
  /\ events = <<>>
  /\ DispatchIdle /\ ConcIdle /\ ClientIdle /\ CacheIdle

SpecFalsy == FalsyInit /\ [][Next]_vars

\* ------------------------------- concurrent executions on one instance

\* Most executions in flight at once on one handler instance.
MaxExecs == 2

Execs == 1..MaxExecs

\* A step instance: the client it was constructed with is its only field.
Instance(h) == [handler |-> h, client |-> "client"]

\* The steps the concurrent executions are called with.
ConcSteps ==
  {s \in StepSet :
     /\ s.hasData /\ s.data.id = "e1" /\ s.data.field = "someField"
     /\ s.data.stepOrder = Undefined
     /\ s.data.operator \in {"be", "not be set"}
     /\ s.data.expectation \in {Undefined, "Expected Value"}}

ConcEntity == [id |-> "e1", someField |-> "Expected Value", title |-> "Some Title"]

\* What the fetcher resolves with for an execution.
ConcResults(h) ==
  IF h = "member" THEN {Resolved("entity", <<ConcEntity>>), Resolved("null", <<>>)}
  ELSE {Resolved("list", <<ConcEntity>>), Resolved("list", <<>>)}

ConcErrors == {Err("Error", "Network Error", 0, "")}

\* One execution: its argument, its position, and what it ended with.
\* overlapped: it started while another execution was suspended.
NewRun(s) ==
  [cmp |-> <<>>, step |-> s, pc |-> "start", fetched |-> NotFetched,
   response |-> NoResponse, thrown |-> NoErr, overlapped |-> FALSE]

\* Execution r ends with the completion c.
RunEnded(r, c) ==
  [r EXCEPT !.pc = IF c.threw THEN "rejected" ELSE "returned",
            !.response = c.resp, !.thrown = c.err, !.cmp = c.cmp]

\* The step data read from the first execution's step, as a field of the
\* instance that the executions share would give it.
ConcStepDataShared(rs, x) == ToStepData(rs[1].step)

\* const stepData = step.getData() ? ... : {} : a local of execution x.
ConcStepData(rs, x) == ToStepData(rs[x].step)

\* The code of the handler h, by name.
InputCheckFails(h, data) ==
  IF h = "member" THEN MemberInputCheckFails(data) ELSE EventInputCheckFails(data)

InputError(h, data) ==
  IF h = "member" THEN MemberInputError(data) ELSE EventInputError(data)

TryCatch(h, data, fetch) ==
  IF h = "member" THEN MemberTryCatch(data, fetch) ELSE EventTryCatch(data, fetch)

ConcInit ==
  /\ instance \in {Instance(h) : h \in Handlers}
  /\ runs \in [Execs -> {NewRun(s) : s \in ConcSteps}]
  /\ CoreIdle /\ DispatchIdle /\ ClientIdle /\ CacheIdle

\* executeStep of execution x up to its await.
ConcExecuteStep(x) ==
  /\ runs[x].pc = "start"
  /\ LET data == ConcStepData(runs, x)
         r == [runs[x] EXCEPT
                 !.overlapped = \E y \in Execs \ {x} : runs[y].pc = "awaitFetch"]
     IN runs' = [runs EXCEPT ![x] =
          IF InputCheckFails(instance.handler, data)
          THEN RunEnded(r, Returns(InputError(instance.handler, data), <<>>))
          ELSE [r EXCEPT !.pc = "awaitFetch"]]
  /\ UNCHANGED <<instance, coreVars, dispatchVars, clientVars, cacheVars>>

\* The fetcher call of execution x resolves and the execution runs to its end.
ConcFetchResolves(x) ==
  /\ runs[x].pc = "awaitFetch"
  /\ \E data \in ConcResults(instance.handler) :
       LET f == Fetch("resolved", data, NoErr) IN
       runs' = [runs EXCEPT ![x] =
         RunEnded([runs[x] EXCEPT !.fetched = f],
                  TryCatch(instance.handler, ConcStepData(runs, x), f))]
  /\ UNCHANGED <<instance, coreVars, dispatchVars, clientVars, cacheVars>>

\* The fetcher call of execution x rejects and the execution runs to its end.
ConcFetchRejects(x) ==
  /\ runs[x].pc = "awaitFetch"
  /\ \E e \in ConcErrors :
       LET f == Fetch("rejected", NoResult, e) IN
       runs' = [runs EXCEPT ![x] =
         RunEnded([runs[x] EXCEPT !.fetched = f],
                  TryCatch(instance.handler, ConcStepData(runs, x), f))]
  /\ UNCHANGED <<instance, coreVars, dispatchVars, clientVars, cacheVars>>

ConcNext ==
  \E x \in Execs :
    \/ ConcExecuteStep(x)
    \/ ConcFetchResolves(x)
    \/ ConcFetchRejects(x)

SpecConc == ConcInit /\ [][ConcNext]_vars

\* ----------------------------------------------------------- ClientWrapper

\* Most values the metadata holds under the key 'token'.
MaxTokenValues == 2

\* Most ClientWrapper constructions on one HTTP client.
MaxConstructions == 2

TokenValues == {"", "some-api-key", "other-key"}

\* auth.get('token'): the list of values the metadata holds for the key.
AuthSet == UNION {[1..k -> TokenValues] : k \in 0..MaxTokenValues}

\* Array.prototype.toString: the values joined with commas.
ArrayToString(values) == Join(values, ",")

\* The defaults of the HTTP client: base URL and the headers the constructor
\* writes.
Defaults(baseURL, authorization, postContentType, getContentType) ==
  [baseURL |-> baseURL, authorization |-> authorization,
   postContentType |-> postContentType, getContentType |-> getContentType]

\* The defaults of a client nothing has been written to yet.
InitialDefaults == {Defaults("", "", "", "")}

\* The token test written on the list: any value, even an empty one, passes.
TokenProvidedAnyValue(auth) == Len(auth) > 0

\* if (auth.get('token').toString())
TokenProvided(auth) == ArrayToString(auth) # ""

\* The four assignments of the if branch.
Authenticated(auth) ==
  Defaults("https://customapi.goldcast.io/", "Token " \o ArrayToString(auth),
           "application/x-www-form-urlencoded", "application/json")

\* How one construction ended, with the defaults before and after it.
Construction(auth, threw, message, before, after) ==
  [message |-> message, threw |-> threw, auth |-> auth,
   before |-> before, after |-> after]

\* A request sent for the wrapper made by the construction of that number,
\* with the Authorization header it carried.
Request(wrapper, url, authorization) ==
  [authorization |-> authorization, wrapper |-> wrapper, url |-> url]

NoRequest == Request(0, "", "")

ClientInit ==
  /\ defaults \in InitialDefaults
  /\ constructed = <<>>
  /\ sent = NoRequest
  /\ CoreIdle /\ DispatchIdle /\ ConcIdle /\ CacheIdle

\* new ClientWrapper(auth, client)
NewClientWrapper ==
  /\ Len(constructed) < MaxConstructions
  /\ \E auth \in AuthSet :
       IF TokenProvided(auth)
       THEN /\ defaults' = Authenticated(auth)
            /\ constructed' = Append(constructed,
                 Construction(auth, FALSE, "", defaults, defaults'))
       ELSE /\ defaults' = defaults
            /\ constructed' = Append(constructed,
                 Construction(auth, TRUE, "Personal Access Token was not provided.",
                              defaults, defaults'))
  /\ UNCHANGED sent
  /\ UNCHANGED <<coreVars, dispatchVars, concVars, cacheVars>>

ClientNext == NewClientWrapper

SpecClient == ClientInit /\ [][ClientNext]_vars

\* The paths the three fetcher methods request.
EventsUrl == "/event/"

EventRegistrantsUrl(eventId) ==
  "/event/" \o TemplateString(eventId) \o "/get_event_registrants/"

EventMembersUrl(eventId) ==
  "/event/event-members/" \o TemplateString(eventId) \o "/"

\* The wrappers there are: the constructions that did not throw.
Wrappers == {w \in DOMAIN constructed : ~constructed[w].threw}

\* this.client.get(url, { transformResponse }) of wrapper w: no header is
\* given with the request, so the client sends the Authorization header its
\* defaults hold at that moment.
ClientGet(w, url) ==
  /\ sent' = Request(w, url, defaults.authorization)
  /\ UNCHANGED <<defaults, constructed>>
  /\ UNCHANGED <<coreVars, dispatchVars, concVars, cacheVars>>

\* EventAwareMixin.getEvents of a wrapper.
WrapperGetEvents == \E w \in Wrappers : ClientGet(w, EventsUrl)

\* EventAwareMixin.getEventRegistrants of a wrapper.
WrapperGetEventRegistrants ==
  \E w \in Wrappers, id \in {"e1", "e2"} : ClientGet(w, EventRegistrantsUrl(id))

\* EventAwareMixin.getEventMembers of a wrapper.
WrapperGetEventMembers ==
  \E w \in Wrappers, id \in {"e1", "e2"} : ClientGet(w, EventMembersUrl(id))

RequestsNext ==
  \/ NewClientWrapper
  \/ WrapperGetEvents
  \/ WrapperGetEventRegistrants
  \/ WrapperGetEventMembers

SpecRequests == ClientInit /\ [][RequestsNext]_vars

\* ---------------------------------------------------- CachingClientWrapper

\* Most calls made through one CachingClientWrapper.
MaxCacheCalls == 2

\* The time a stored key lives, in seconds.
CacheTtl == 55

CacheIds == {"e1"}

\* The identity the wrapper was constructed for.
IdMap == [scenarioId |-> "s1", requestorId |-> "r1", connectionId |-> "c1"]

\* `${this.idMap.scenarioId}${this.idMap.requestorId}${this.idMap.connectionId}`
CachePrefix(idMap) == idMap.scenarioId \o idMap.requestorId \o idMap.connectionId

\* A lookup of the wrapped client: the method and its argument.
Lookup(method, id) == [id |-> id, method |-> method]

Lookups ==
  {Lookup("getEvents", Undefined)}
    \cup {Lookup(m, id) : m \in {"getEventRegistrants", "getEventMembers"}, id \in CacheIds}

\* What the remote service answers a lookup with: null, an object, a list.
RemoteValues ==
  { Resolved("null", <<>>), Resolved("entity", <<ConcEntity>>),
    Resolved("list", <<ConcEntity>>) }

\* The keys with getEventMembers under the name of getEventRegistrants.
CacheKeySameName(method, id, prefix) ==
  IF method = "getEvents" THEN "Goldcast|Events|" \o prefix
  ELSE "Goldcast|EventRegistrants|" \o TemplateString(id) \o "|" \o prefix

\* const cachekey = `Goldcast|...|${id}|${this.cachePrefix}`
CacheKey(method, id, prefix) ==
  IF method = "getEvents" THEN "Goldcast|Events|" \o prefix
  ELSE IF method = "getEventRegistrants"
  THEN "Goldcast|EventRegistrants|" \o TemplateString(id) \o "|" \o prefix
  ELSE "Goldcast|EventMembers|" \o TemplateString(id) \o "|" \o prefix

\* `cachekeys|${this.cachePrefix}`
TrackedKey(prefix) == "cachekeys|" \o prefix

DataKeys == {CacheKey(l.method, l.id, CachePrefix(IdMap)) : l \in Lookups}

\* JSON.stringify of an entity: the keys it has, in order.
EntityText(ent) ==
  "{" \o Join(SelectSeq(
         << IF ent.id = Undefined THEN "" ELSE "\"id\":\"" \o ent.id \o "\"",
            IF ent.someField = Undefined THEN ""
            ELSE IF ent.someField = Null THEN "\"someField\":null"
            ELSE "\"someField\":\"" \o ent.someField \o "\"",
            IF ent.title = Undefined THEN "" ELSE "\"title\":\"" \o ent.title \o "\"" >>,
         LAMBDA t : t # ""), ",") \o "}"

\* JSON.stringify(value) of a fetched value.
ValueText(v) ==
  CASE v.kind = "null" -> "null"
    [] v.kind = "entity" -> EntityText(v.ents[1])
    [] v.kind = "list" ->
         "[" \o Join([i \in DOMAIN v.ents |-> EntityText(v.ents[i])], ",") \o "]"

\* JSON.parse(stored) of a text that JSON.stringify wrote for a fetched value.
ParseValue(text) == CHOOSE v \in RemoteValues : ValueText(v) = text

\* The lists of keys the tracked key list can hold.
KeyLists == UNION {[1..k -> DataKeys] : k \in 0..MaxCacheCalls}

\* JSON.stringify(arrOfKeys)
KeyListText(keys) ==
  "[" \o Join([i \in DOMAIN keys |-> "\"" \o keys[i] \o "\""], ",") \o "]"

ParseKeyList(text) == CHOOSE keys \in KeyLists : KeyListText(keys) = text

\* The store: its entries in the order they were last written, oldest first;
\* every entry is written with the same time to live, so the oldest entry is
\* the next to expire.
Entry(key, text) == [key |-> key, text |-> text, ttl |-> CacheTtl]

\* redisClient.get(key): the stored text, or null.
RedisGet(store, key) ==
  IF \E i \in DOMAIN store : store[i].key = key
  THEN store[CHOOSE i \in DOMAIN store : store[i].key = key].text
  ELSE Null

\* redisClient.del(key)
RedisDel(store, key) == SelectSeq(store, LAMBDA en : en.key # key)

\* redisClient.setex(key, 55, text)
RedisSetex(store, key, text) == Append(RedisDel(store, key), Entry(key, text))

\* getCache(key) for a data key: the parsed value, null when nothing is
\* stored, undefined when the store's get rejected.
GetCache(store, key, getOk) ==
  IF ~getOk THEN Resolved("undefined", <<>>)
  ELSE IF RedisGet(store, key) # Null THEN ParseValue(RedisGet(store, key))
  ELSE Resolved("null", <<>>)

\* await this.getCache(`cachekeys|${this.cachePrefix}`) || []
GetTrackedKeys(store, prefix, getOk) ==
  IF getOk /\ RedisGet(store, TrackedKey(prefix)) # Null
  THEN ParseKeyList(RedisGet(store, TrackedKey(prefix)))
  ELSE <<>>

\* setCache(key, value): sets is the number of setex calls that succeed
\* before one rejects (2: both).
SetCache(store, prefix, key, value, getOk, sets) ==
  LET arrOfKeys == Append(GetTrackedKeys(store, prefix, getOk), key)
      first == RedisSetex(store, key, ValueText(value))
  IN IF sets = 0 THEN store
     ELSE IF sets = 1 THEN first
     ELSE RedisSetex(first, TrackedKey(prefix), KeyListText(arrOfKeys))

\* The cached lookups with a setCache for every result, falsy ones too.
CachedLookupStoresAll(store, prefix, key, result, getOk, sets) ==
  LET stored == GetCache(store, key, getOk) IN
  IF Truthy(stored)
  THEN [store |-> store, hit |-> TRUE, returned |-> stored,
        calls |-> 0, setCalls |-> 0]
  ELSE [store |-> SetCache(store, prefix, key, result, getOk, sets),
        hit |-> FALSE, returned |-> result,
        calls |-> 1, setCalls |-> 1]

\* The body the three cached lookups share: the stored value when there is
\* a truthy one, else the result of the wrapped client, stored when truthy.
\* calls and setCalls count the calls made to the wrapped client and to
\* setCache.
CachedLookup(store, prefix, key, result, getOk, sets) ==
  LET stored == GetCache(store, key, getOk) IN
  IF Truthy(stored)
  THEN [store |-> store, hit |-> TRUE, returned |-> stored,
        calls |-> 0, setCalls |-> 0]
  ELSE [store |-> IF Truthy(result)
                  THEN SetCache(store, prefix, key, result, getOk, sets)
                  ELSE store,
        hit |-> FALSE, returned |-> result,
        calls |-> 1, setCalls |-> IF Truthy(result) THEN 1 ELSE 0]

\* The last call through the wrapper: n counts the calls so far, current is
\* what the wrapped client returns at the moment of the call.
CacheCall(n, lookup, hit, returned, current) ==
  [n |-> n, hit |-> hit, returned |-> returned, lookup |-> lookup, current |-> current]

NoCacheCall ==
  CacheCall(0, Lookup("none", Undefined), FALSE, NoResult, NoResult)

CacheInit ==
  /\ remote \in [Lookups -> RemoteValues]
  /\ redis = <<>>
  /\ served = [l \in Lookups |-> NoResult]
  /\ cacheCall = NoCacheCall
  /\ ops = <<>> /\ keyUse = <<>>
  /\ CoreIdle /\ DispatchIdle /\ ConcIdle /\ ClientIdle

\* One call of a cached lookup, from its first line to its return.
CallThroughCache(l) ==
  /\ cacheCall.n < MaxCacheCalls
  /\ \E getOk \in BOOLEAN, sets \in 0..2 :
       LET key == CacheKey(l.method, l.id, CachePrefix(IdMap))
           c == CachedLookup(redis, CachePrefix(IdMap), key, remote[l], getOk, sets)
       IN /\ redis' = c.store
          /\ served' = IF ~c.hit /\ Truthy(remote[l]) /\ sets > 0
                       THEN [served EXCEPT ![l] = remote[l]]
                       ELSE served
          /\ cacheCall' = CacheCall(cacheCall.n + 1, l, c.hit, c.returned, remote[l])
  /\ UNCHANGED <<remote, ops, keyUse>>
  /\ UNCHANGED <<coreVars, dispatchVars, concVars, clientVars>>

CachedGetEvents == CallThroughCache(Lookup("getEvents", Undefined))

CachedGetEventRegistrants ==
  \E id \in CacheIds : CallThroughCache(Lookup("getEventRegistrants", id))

CachedGetEventMembers ==
  \E id \in CacheIds : CallThroughCache(Lookup("getEventMembers", id))

\* The remote service's data changes.
RemoteChanges ==
  /\ \E l \in Lookups, v \in RemoteValues :
       /\ remote[l] # v
       /\ remote' = [remote EXCEPT ![l] = v]
  /\ UNCHANGED <<redis, served, cacheCall, ops, keyUse>>
  /\ UNCHANGED <<coreVars, dispatchVars, concVars, clientVars>>

\* The oldest entry of the store reaches the end of its time to live.
EntryExpires ==
  /\ redis # <<>>
  /\ redis' = Tail(redis)
  /\ UNCHANGED <<remote, served, cacheCall, ops, keyUse>>
  /\ UNCHANGED <<coreVars, dispatchVars, concVars, clientVars>>

CacheNext ==
  \/ CachedGetEvents
  \/ CachedGetEventRegistrants
  \/ CachedGetEventMembers
  \/ RemoteChanges
  \/ EntryExpires

SpecCache == CacheInit /\ [][CacheNext]_vars

\* ------------------------------------------------------- the cache keys

\* The identities two wrappers can be constructed for.
IdMapInputs ==
  [scenarioId : {"s1", "s1r"}, requestorId : {"r1", "1"}, connectionId : {"c1"}]

KeyIds == {"e1", "e2"}

\* The lookups a key is computed for.
KeyLookups ==
  {Lookup("getEvents", Undefined)}
    \cup {Lookup(m, id) : m \in {"getEventRegistrants", "getEventMembers"}, id \in KeyIds}

\* One use of the cache: a lookup made through the wrapper of an identity.
KeyUse(idMap, lookup) == [idMap |-> idMap, lookup |-> lookup]

KeyUses == {KeyUse(i, l) : i \in IdMapInputs, l \in KeyLookups}

\* const cachekey = ... of the lookup, in the wrapper of the identity.
CacheKeyOf(use) ==
  CacheKey(use.lookup.method, use.lookup.id, CachePrefix(use.idMap))

KeysInit ==
  /\ keyUse \in [a : KeyUses, b : KeyUses, keyA : {Undefined}, keyB : {Undefined}]
  /\ remote = <<>> /\ redis = <<>> /\ served = <<>> /\ cacheCall = <<>>
  /\ ops = <<>>
  /\ CoreIdle /\ DispatchIdle /\ ConcIdle /\ ClientIdle

\* The two lookups reach the line that computes their key.
ComputeCacheKeys ==
  /\ keyUse.keyA = Undefined
  /\ keyUse' = [keyUse EXCEPT !.keyA = CacheKeyOf(keyUse.a),
                              !.keyB = CacheKeyOf(keyUse.b)]
  /\ UNCHANGED <<remote, redis, served, cacheCall, ops>>
  /\ UNCHANGED <<coreVars, dispatchVars, concVars, clientVars>>

KeysNext == ComputeCacheKeys

SpecKeys == KeysInit /\ [][KeysNext]_vars

\* ------------------------------------------ cache operations in flight

\* Most setCache / clearCache calls in flight at once under one prefix.
MaxOps == 2

OpIds == 1..MaxOps

\* The values setCache is called with: the truthy results of a lookup.
StoredValues == {v \in RemoteValues : Truthy(v)}

\* One call of setCache or clearCache.  keys is its local list (arrOfKeys,
\* keysToDelete); wrote: its setex of key succeeded; failed: a store command
\* it issued rejected; unhandled: the rejections of its del commands, which
\* nothing awaits; left and list: the data keys in the store and the tracked
\* list at the moment its promise resolved.
Op(kind, at, key, value) ==
  [key |-> key, kind |-> kind, pc |-> at, keys |-> <<>>, value |-> value,
   wrote |-> FALSE, failed |-> FALSE, unhandled |-> 0, left |-> {}, list |-> <<>>]

NoOp == Op("none", "idle", "", NoResult)

\* The data keys the store holds.
StoredKeys(store) == {k \in DataKeys : RedisGet(store, k) # Null}

RECURSIVE RedisDelAll(_, _)
\* keysToDelete.forEach(key => this.delAsync(key)) with every del succeeding.
RedisDelAll(store, keys) ==
  IF keys = <<>> THEN store
  ELSE RedisDelAll(RedisDel(store, keys[1]), Tail(keys))

\* The store takes the commands of its one connection in the order they are
\* issued: a command has its effect when it is issued, and the operation
\* that issued it goes on when its reply arrives.
OpsInit ==
  /\ remote = [l \in Lookups |-> Resolved("null", <<>>)]
  /\ redis = <<>>
  /\ served = [l \in Lookups |-> NoResult]
  /\ cacheCall = NoCacheCall
  /\ ops = [o \in OpIds |-> NoOp]
  /\ keyUse = <<>>
  /\ CoreIdle /\ DispatchIdle /\ ConcIdle /\ ClientIdle

OpsFrame ==
  /\ UNCHANGED <<remote, served, cacheCall, keyUse>>
  /\ UNCHANGED <<coreVars, dispatchVars, concVars, clientVars>>

\* setCache(key, value) up to its first await: getCache of the tracked list.
SetCacheStarts(o) ==
  /\ ops[o].kind = "none"
  /\ \E key \in DataKeys, value \in StoredValues, getOk \in BOOLEAN :
       ops' = [ops EXCEPT ![o] =
         [Op("setCache", "awaitGet", key, value) EXCEPT
            !.keys = GetTrackedKeys(redis, CachePrefix(IdMap), getOk),
            !.failed = ~getOk]]
  /\ UNCHANGED redis
  /\ OpsFrame

\* arrOfKeys.push(key); await this.setAsync(key, 55, JSON.stringify(value))
SetCacheWritesKey(o) ==
  /\ ops[o].kind = "setCache" /\ ops[o].pc = "awaitGet"
  /\ \E ok \in BOOLEAN :
       /\ redis' = IF ok THEN RedisSetex(redis, ops[o].key, ValueText(ops[o].value))
                   ELSE redis
       /\ ops' = [ops EXCEPT ![o].keys = Append(@, ops[o].key),
                              ![o].wrote = ok,
                              ![o].failed = @ \/ ~ok,
                              ![o].pc = IF ok THEN "awaitSetKey" ELSE "caught"]
  /\ OpsFrame

\* await this.setAsync(`cachekeys|${this.cachePrefix}`, 55, JSON.stringify(arrOfKeys))
SetCacheWritesTrackedKeys(o) ==
  /\ ops[o].kind = "setCache" /\ ops[o].pc = "awaitSetKey"
  /\ \E ok \in BOOLEAN :
       /\ redis' = IF ok THEN RedisSetex(redis, TrackedKey(CachePrefix(IdMap)),
                                         KeyListText(ops[o].keys))
                   ELSE redis
       /\ ops' = [ops EXCEPT ![o].failed = @ \/ ~ok,
                              ![o].pc = IF ok THEN "awaitSetKeys" ELSE "caught"]
  /\ OpsFrame

\* The last reply arrives, or the catch block has logged the rejection: the
\* promise of setCache resolves.
SetCacheResolves(o) ==
  /\ ops[o].kind = "setCache" /\ ops[o].pc \in {"awaitSetKeys", "caught"}
  /\ ops' = [ops EXCEPT ![o].pc = "done"]
  /\ UNCHANGED redis
  /\ OpsFrame

\* clearCache() up to its first await: getCache of the tracked list.
ClearCacheStarts(o) ==
  /\ ops[o].kind = "none"
  /\ \E getOk \in BOOLEAN :
       ops' = [ops EXCEPT ![o] =
         [Op("clearCache", "awaitGet", "", NoResult) EXCEPT
            !.keys = GetTrackedKeys(redis, CachePrefix(IdMap), getOk),
            !.failed = ~getOk]]
  /\ UNCHANGED redis
  /\ OpsFrame

\* keysToDelete.forEach(async key => await this.delAsync(key)): every del is
\* issued and none is awaited; then await this.setAsync(cachekeys, 55, '[]').
\* rejected: the keys whose del rejects.
ClearCacheDeletes(o) ==
  /\ ops[o].kind = "clearCache" /\ ops[o].pc = "awaitGet"
  /\ \E rejected \in SUBSET {ops[o].keys[i] : i \in DOMAIN ops[o].keys}, ok \in BOOLEAN :
       LET deleted == RedisDelAll(redis,
                        SelectSeq(ops[o].keys, LAMBDA k : k \notin rejected))
       IN /\ redis' = IF ok THEN RedisSetex(deleted, TrackedKey(CachePrefix(IdMap)), "[]")
                      ELSE deleted
          /\ ops' = [ops EXCEPT ![o].unhandled = Cardinality(rejected),
                                 ![o].failed = @ \/ ~ok \/ rejected # {},
                                 ![o].pc = IF ok THEN "awaitSet" ELSE "caught"]
  /\ OpsFrame

\* The reply of the setex arrives, or the catch block has logged its
\* rejection: the promise of clearCache resolves.
ClearCacheResolves(o) ==
  /\ ops[o].kind = "clearCache" /\ ops[o].pc \in {"awaitSet", "caught"}
  /\ ops' = [ops EXCEPT ![o].pc = "done",
                         ![o].left = StoredKeys(redis),
                         ![o].list = GetTrackedKeys(redis, CachePrefix(IdMap), TRUE)]
  /\ UNCHANGED redis
  /\ OpsFrame

OpsNext ==
  \E o \in OpIds :
    \/ SetCacheStarts(o)
    \/ SetCacheWritesKey(o)
    \/ SetCacheWritesTrackedKeys(o)
    \/ SetCacheResolves(o)
    \/ ClearCacheStarts(o)
    \/ ClearCacheDeletes(o)
    \/ ClearCacheResolves(o)

SpecOps == OpsInit /\ [][OpsNext]_vars

\* --------------------------------------- cache calls and store failures

\* A cache function without its try / catch: its promise rejects when a
\* store command it awaits rejects.
NotCaught(failed) == IF failed THEN "rejected" ELSE "resolved"

\* try { ... } catch (err) { console.log(err); }: how the promise of
\* getCache, setCache, delCache or clearCache settles; failed says whether a
\* store command awaited inside the try rejected.
Caught(failed) == "resolved"

\* A cached lookup awaits getCache and, when it stores, setCache, outside any
\* try: its promise rejects when one of them rejects.
LookupSettled(getOk, setCalls, sets) ==
  IF Caught(~getOk) = "rejected" THEN "rejected"
  ELSE IF setCalls = 1 /\ Caught(~getOk \/ sets < 2) = "rejected" THEN "rejected"
  ELSE "resolved"

\* delCache(key)
DelCache(store, key, ok) == IF ok THEN RedisDel(store, key) ELSE store

\* clearCache(): rejected are the keys whose del rejects, ok says whether the
\* setex of '[]' succeeds.
ClearCache(store, prefix, getOk, rejected, ok) ==
  LET keysToDelete == GetTrackedKeys(store, prefix, getOk)
      deleted == RedisDelAll(store, SelectSeq(keysToDelete, LAMBDA k : k \notin rejected))
  IN IF ok THEN RedisSetex(deleted, TrackedKey(prefix), "[]") ELSE deleted

\* One call of a cache function, from its first line to the settling of its
\* promise.  held: the text the store held under key when the call began;
\* held after: the text under key when it ended; stored: what getCache
\* yielded; failed: a store command of the call rejected.
StoreCall(n, op, lookup, key) ==
  [n |-> n, key |-> key, after |-> Null, getOk |-> TRUE, stored |-> NoResult,
   hit |-> FALSE, returned |-> NoResult, calls |-> 0, setCalls |-> 0,
   lookup |-> lookup, current |-> NoResult, failed |-> FALSE, op |-> op,
   held |-> Null, settled |-> "pending"]

NoStoreCall == StoreCall(0, "none", Lookup("none", Undefined), "")

LookupInit ==
  /\ remote \in [Lookups -> RemoteValues]
  /\ redis = <<>>
  /\ served = [l \in Lookups |-> NoResult]
  /\ cacheCall = NoStoreCall
  /\ ops = <<>> /\ keyUse = <<>>
  /\ CoreIdle /\ DispatchIdle /\ ConcIdle /\ ClientIdle

LookupFrame ==
  /\ UNCHANGED <<remote, served, ops, keyUse>>
  /\ UNCHANGED <<coreVars, dispatchVars, concVars, clientVars>>

\* One call of a cached lookup with the store commands it issues succeeding
\* or rejecting.
LookupCall(l) ==
  /\ cacheCall.n < MaxCacheCalls
  /\ \E getOk \in BOOLEAN, sets \in 0..2 :
       LET prefix == CachePrefix(IdMap)
           key == CacheKey(l.method, l.id, prefix)
           c == CachedLookup(redis, prefix, key, remote[l], getOk, sets)
       IN /\ redis' = c.store
          /\ cacheCall' =
               [StoreCall(cacheCall.n + 1, "lookup", l, key) EXCEPT
                  !.getOk = getOk,
                  !.failed = ~getOk \/ (c.setCalls = 1 /\ sets < 2),
                  !.held = RedisGet(redis, key),
                  !.after = RedisGet(c.store, key),
                  !.stored = GetCache(redis, key, getOk),
                  !.hit = c.hit, !.calls = c.calls, !.setCalls = c.setCalls,
                  !.returned = c.returned, !.current = remote[l],
                  !.settled = LookupSettled(getOk, c.setCalls, sets)]
  /\ LookupFrame

LookupGetEvents == LookupCall(Lookup("getEvents", Undefined))

LookupGetEventRegistrants ==
  \E id \in CacheIds : LookupCall(Lookup("getEventRegistrants", id))

LookupGetEventMembers ==
  \E id \in CacheIds : LookupCall(Lookup("getEventMembers", id))

\* One call of delCache(key).
DelCacheCall ==
  /\ cacheCall.n < MaxCacheCalls
  /\ \E key \in DataKeys, ok \in BOOLEAN :
       /\ redis' = DelCache(redis, key, ok)
       /\ cacheCall' =
            [StoreCall(cacheCall.n + 1, "delCache", Lookup("none", Undefined), key) EXCEPT
               !.failed = ~ok,
               !.held = RedisGet(redis, key),
               !.after = RedisGet(DelCache(redis, key, ok), key),
               !.settled = Caught(~ok)]
  /\ LookupFrame

\* One call of clearCache().
ClearCacheCall ==
  /\ cacheCall.n < MaxCacheCalls
  /\ \E getOk \in BOOLEAN, ok \in BOOLEAN,
        rejected \in SUBSET StoredKeys(redis) :
       LET prefix == CachePrefix(IdMap) IN
       /\ redis' = ClearCache(redis, prefix, getOk, rejected, ok)
       /\ cacheCall' =
            [StoreCall(cacheCall.n + 1, "clearCache", Lookup("none", Undefined),
                       TrackedKey(prefix)) EXCEPT
               !.getOk = getOk,
               !.failed = ~getOk \/ ~ok \/ rejected # {},
               !.held = RedisGet(redis, TrackedKey(prefix)),
               !.after = RedisGet(ClearCache(redis, prefix, getOk, rejected, ok),
                                  TrackedKey(prefix)),
               !.settled = Caught(~ok)]
  /\ LookupFrame

LookupNext ==
  \/ LookupGetEvents
  \/ LookupGetEventRegistrants
  \/ LookupGetEventMembers
  \/ DelCacheCall
  \/ ClearCacheCall

SpecLookup == LookupInit /\ [][LookupNext]_vars

\* --------------------------------------------------- registry / dispatcher

\* The stepId of each registered handler: the name of its class.
RegisteredStepIds == {"EventMemberFieldEqualsStep", "EventFieldEqualsStep"}

\* The stepIds a RunStep request may carry.
StepIds == RegisteredStepIds \cup {"", "UnknownStep"}

\* The lookup giving the other handler for each registered id.
StepHandlerSwapped(id) ==
  IF id = "EventMemberFieldEqualsStep" THEN "event" ELSE "member"

\* The handler registered under a stepId.
StepHandler(id) ==
  IF id = "EventMemberFieldEqualsStep" THEN "member" ELSE "event"

\* The response to a stepId no handler is registered under.
NoSuchStep(id) == Error("no such step: %s", <<id>>)

DispatchInit ==
  /\ stepId \in StepIds
  /\ step \in StepSet
  /\ handler = "none"
  /\ pc = "dispatch"
  /\ fetchCalls = 0
  /\ fetched = NotFetched
  /\ cmpLog = <<>>
  /\ response = NoResponse
  /\ thrown = NoErr
  /\ events = <<>>
  /\ ConcIdle /\ ClientIdle /\ CacheIdle

\* dispatch(stepId, request): the handler is looked up and its executeStep
\* is called, or the request is answered with an ERROR.
Dispatch ==
  /\ pc = "dispatch"
  /\ IF stepId \in RegisteredStepIds
     THEN /\ handler' = StepHandler(stepId)
          /\ pc' = "start"
          /\ UNCHANGED response
     ELSE /\ response' = NoSuchStep(stepId)
          /\ pc' = "returned"
          /\ UNCHANGED handler
  /\ UNCHANGED <<step, fetchCalls, fetched, cmpLog, thrown, events>>
  /\ UNCHANGED <<dispatchVars, concVars, clientVars, cacheVars>>

DispatchNext ==
  \/ Dispatch
  \/ MemberExecuteStep
  \/ GetEventMembersResolves
  \/ GetEventMembersRejects
  \/ EventExecuteStep
  \/ GetEventsResolves
  \/ GetEventsRejects

SpecDispatch == DispatchInit /\ [][DispatchNext]_vars

\* ------------------------------------------------------------ properties

\* The step data of the running execution.
sd == ToStepData(step)

Done == pc \in {"returned", "rejected"}

PresenceOperators == {"be set", "not be set"}

ExpectationMissing == sd.expectation \in {Null, Undefined}

\* No expectation and not a presence operator: the input is malformed.
InputMalformed == ExpectationMissing /\ sd.operator \notin PresenceOperators

\* The positions of the resolved list whose entity has the requested id.
MatchIndexes ==
  {i \in DOMAIN fetched.data.ents : fetched.data.ents[i].id = sd.id}

\* The lookup found its entity: a truthy by-id result, or one id match.
EntityFound ==
  /\ fetched.how = "resolved"
  /\ \/ handler = "member" /\ fetched.data.kind = "entity"
     \/ handler = "event" /\ fetched.data.kind = "list" /\ Cardinality(MatchIndexes) = 1

FoundEntity ==
  IF handler = "member" THEN fetched.data.ents[1]
  ELSE fetched.data.ents[CHOOSE i \in MatchIndexes : TRUE]

FieldIsOwnProperty ==
  sd.field \in EntityFields /\ FoundEntity[sd.field] # Undefined

\* The comparator was called once and gave a verdict.
ComparatorCompleted ==
  /\ Len(cmpLog) = 1
  /\ Compare(cmpLog[1].operator, cmpLog[1].actual, cmpLog[1].expected).err = NoErr

Outcomes == {"PASSED", "FAILED", "ERROR"}

\* C1: whatever the step input and whatever the fetcher does, executeStep of
\* both handlers returns a response with one outcome of PASSED, FAILED or
\* ERROR, and its promise never rejects.  The code breaks this: a 404
\* rejection whose body is not JSON, or a rejection with no error value,
\* throws inside the catch block.
C1_ExecuteStepAlwaysResponds ==
  Done => (pc = "returned" /\ response.outcome \in Outcomes)

\* C2: with the expectation null or absent and an operator that is neither
\* 'be set' nor 'not be set', executeStep returns ERROR and the fetcher is
\* called zero times.
C2_MissingExpectationErrorsBeforeFetch ==
  (pc # "start" /\ InputMalformed) =>
    /\ pc = "returned"
    /\ response.outcome = "ERROR"
    /\ response.messageFormat =
         "The operator '%s' requires an expected value. Please provide one."
    /\ fetchCalls = 0
    /\ fetched = NotFetched

C2_Witness ==
  /\ handler = "member" /\ pc = "returned" /\ sd.expectation = Undefined
  /\ sd.operator = "be" /\ response.outcome = "ERROR" /\ fetchCalls = 0

\* C3: in every handler a step with no operator runs as if the operator were
\* 'be': with an expectation and the entity found with the field present,
\* the outcome is the verdict of the 'be' comparison.  The member handler
\* does not default the operator, so this fails there.
C3_AbsentOperatorActsAsBe ==
  (Done /\ sd.operator = Undefined /\ ~ExpectationMissing
        /\ EntityFound /\ FieldIsOwnProperty) =>
    /\ pc = "returned"
    /\ response.outcome =
         IF Compare("be", FoundEntity[sd.field], sd.expectation).valid
         THEN "PASSED" ELSE "FAILED"

\* The fetch resolved, and the lookup ended without a comparison: nothing
\* found, more than one match, or the field missing on the found entity.
LookupEndedWithoutComparison ==
  /\ fetched.how = "resolved"
  /\ cmpLog = <<>>
  /\ \/ handler = "member"
     \/ handler = "event" /\ fetched.data.kind = "list"
  /\ ~(EntityFound /\ FieldIsOwnProperty)

\* The comparison could not be attempted, or did not complete: malformed
\* input, a rejected fetch, a resolved value that is no list (event
\* handler), or an operator the comparator does not know.
ComparisonNotAttempted ==
  \/ InputMalformed
  \/ fetched.how = "rejected"
  \/ fetched.how = "resolved" /\ handler = "event" /\ fetched.data.kind # "list"
  \/ Len(cmpLog) = 1 /\ cmpLog[1].operator \notin ValidOperators

\* C4 as stated: PASSED or FAILED only after a completed comparison, and
\* ERROR whenever the comparison was not attempted (a missing entity too).
C4_VerdictOnlyAfterComparison ==
  Done =>
    /\ (pc = "returned" /\ response.outcome \in {"PASSED", "FAILED"}) => ComparatorCompleted
    /\ (pc = "returned" /\ ~ComparatorCompleted) => response.outcome = "ERROR"

\* C4 amended: PASSED only after a completed comparison; FAILED only after a
\* completed comparison or a resolved lookup that found no entity, more than
\* one, or no such field (no comparator call then); and after malformed
\* input, a failed fetch or an unknown operator the outcome is never PASSED
\* or FAILED.
C4_PassedOnlyAfterComparison ==
  Done =>
    /\ (pc = "returned" /\ response.outcome = "PASSED") => ComparatorCompleted
    /\ (pc = "returned" /\ response.outcome = "FAILED") =>
         (ComparatorCompleted \/ LookupEndedWithoutComparison)
    /\ ComparisonNotAttempted => response.outcome \notin {"PASSED", "FAILED"}

C4_Witness ==
  /\ pc = "returned" /\ response.outcome = "FAILED" /\ cmpLog = <<>>
  /\ handler = "event" /\ fetched.how = "resolved" /\ fetched.data.kind = "list"
  /\ Cardinality(MatchIndexes) = 0 /\ Len(fetched.data.ents) > 0

\* C5: in the member handler, when the input check passes and
\* getEventMembers resolves with null, undefined or an entity with no
\* fields, executeStep returns FAILED and the comparator is not called.
C5_MemberEmptyResultFails ==
  (Done /\ handler = "member" /\ fetched.how = "resolved"
        /\ (fetched.data.kind \in {"null", "undefined"}
            \/ fetched.data = Resolved("entity", <<EmptyEntity>>))) =>
    /\ pc = "returned"
    /\ response.outcome = "FAILED"
    /\ cmpLog = <<>>

C5_Witness ==
  /\ handler = "member" /\ pc = "returned" /\ fetched.how = "resolved"
  /\ fetched.data.kind = "null" /\ response.outcome = "FAILED" /\ fetchCalls = 1

\* C6: in the event handler, when getEvents resolves with a list, the number
\* n of entities whose id equals eventId decides the path: n = 0 gives FAILED
\* "Couldn't find", n >= 2 gives FAILED "Found more than one record", only
\* n = 1 goes on to the field check, and with n # 1 the comparator is never
\* called.
C6_MatchCountDecidesPath ==
  (Done /\ handler = "event" /\ fetched.how = "resolved" /\ fetched.data.kind = "list") =>
    LET n == Cardinality(MatchIndexes) IN
    /\ n = 0 => /\ pc = "returned" /\ response.outcome = "FAILED"
                /\ response.messageFormat = "Couldn't find a event with id %s"
                /\ cmpLog = <<>>
    /\ n >= 2 => /\ pc = "returned" /\ response.outcome = "FAILED"
                 /\ response.messageFormat = "Found more than one record with id %s"
                 /\ cmpLog = <<>>
    /\ n = 1 => \/ Len(cmpLog) = 1
                \/ /\ pc = "returned" /\ response.outcome = "FAILED"
                   /\ response.messageFormat =
                        "Found the event with id %s, but there was no %s field."

C6_Witness ==
  /\ handler = "event" /\ pc = "returned" /\ fetched.how = "resolved"
  /\ fetched.data.kind = "list" /\ Cardinality(MatchIndexes) = 2
  /\ response.messageFormat = "Found more than one record with id %s"

\* C7 as stated: in the event handler, getEvents resolving with no results,
\* an empty list or an envelope holding an empty list, gives ERROR.
C7_NoResultsIsError ==
  (Done /\ handler = "event" /\ fetched.how = "resolved"
        /\ (fetched.data = Resolved("list", <<>>) \/ fetched.data.kind = "envelope")) =>
    (pc = "returned" /\ response.outcome = "ERROR")

\* C7 amended: in the event handler, getEvents resolving with an envelope
\* that holds an empty list (a value that is no list) gives ERROR; resolving
\* with an empty list gives FAILED with the "Couldn't find" message.
C7_EnvelopeIsErrorEmptyListFails ==
  (Done /\ handler = "event" /\ fetched.how = "resolved") =>
    /\ fetched.data.kind = "envelope" =>
         /\ pc = "returned" /\ response.outcome = "ERROR"
         /\ response.messageFormat =
              "There was an error while validating this event field: %s"
    /\ fetched.data = Resolved("list", <<>>) =>
         /\ pc = "returned" /\ response.outcome = "FAILED"
         /\ response.messageFormat = "Couldn't find a event with id %s"

C7_Witness ==
  /\ handler = "event" /\ pc = "returned" /\ fetched.how = "resolved"
  /\ fetched.data.kind = "envelope" /\ response.outcome = "ERROR"

\* The operator the handler works with: the event handler defaults an
\* absent one to 'be', the member handler takes it as it is.
HandlerOperator ==
  IF handler = "event" /\ sd.operator \in {Undefined, ""} THEN "be" ELSE sd.operator

\* The fixed record id of the handler.
FixedRecordId == IF handler = "member" THEN "member" ELSE "event"

\* The text of the step's order: __stepOrder, or 1 when it is absent.
OrderSuffix == IF sd.stepOrder = Undefined THEN "1" ELSE sd.stepOrder

\* The response carries the two records of the found entity.
CarriesEntityRecords ==
  /\ Len(response.records) = 2
  /\ response.records[1].id = FixedRecordId
  /\ response.records[2].id = FixedRecordId \o "." \o OrderSuffix
  /\ response.records[1].keyValue = FoundEntity
  /\ response.records[2].keyValue = FoundEntity

FieldMissingFormat ==
  IF handler = "member"
  THEN "Found the member with event id %s, but there was no %s field."
  ELSE "Found the event with id %s, but there was no %s field."

\* C8: in both handlers, when the entity is found but has no own property
\* named by field, executeStep returns FAILED with the message arguments
\* (id, field), does not call the comparator and carries the records built
\* from the entity; a field that is present with a null value does not take
\* this path.
C8_MissingFieldFails ==
  (Done /\ EntityFound) =>
    /\ ~FieldIsOwnProperty =>
         /\ pc = "returned" /\ response.outcome = "FAILED"
         /\ response.messageFormat = FieldMissingFormat
         /\ response.messageArgs = <<sd.id, sd.field>>
         /\ cmpLog = <<>>
         /\ CarriesEntityRecords
    /\ (sd.field \in EntityFields /\ FoundEntity[sd.field] = Null) =>
         /\ Len(cmpLog) = 1
         /\ response.messageFormat # FieldMissingFormat

C8_Witness ==
  /\ pc = "returned" /\ EntityFound /\ sd.field = "someField"
  /\ FoundEntity.someField = Undefined /\ FoundEntity.id # Undefined
  /\ response.outcome = "FAILED" /\ Len(response.records) = 2

\* C9: in both handlers, when the entity is found and has the field, the
\* comparator is called once with (operator, entity[field], expectation,
\* field); its verdict alone decides the outcome, valid giving PASSED and
\* not valid FAILED, the message is the comparator's and the response
\* carries the records.
C9_VerdictDecidesOutcome ==
  (Done /\ EntityFound /\ FieldIsOwnProperty) =>
    LET result == StepAssert(HandlerOperator, FoundEntity[sd.field],
                             sd.expectation, sd.field) IN
    /\ cmpLog = <<CmpArgs(HandlerOperator, FoundEntity[sd.field],
                          sd.expectation, sd.field)>>
    /\ result.err = NoErr =>
         /\ pc = "returned"
         /\ response.outcome = IF result.valid THEN "PASSED" ELSE "FAILED"
         /\ response.messageFormat = result.message
         /\ CarriesEntityRecords

C9_Witness ==
  /\ handler = "member" /\ pc = "returned" /\ EntityFound /\ FieldIsOwnProperty
  /\ sd.operator = "be" /\ sd.expectation = "Expected Value"
  /\ response.outcome = "PASSED" /\ Len(cmpLog) = 1

\* C10: every response produced after an entity was found (PASSED, a failed
\* comparison, a missing field) carries exactly two records, in this order:
\* one with the handler's fixed id ('event' or 'member') and one with id
\* '<fixed id>.<stepOrder>', stepOrder being the step's __stepOrder or 1 when
\* absent; both wrap the same snapshot of the entity.
C10_TwoRecordsInOrder ==
  (pc = "returned" /\ EntityFound /\ response.outcome \in {"PASSED", "FAILED"}) =>
    /\ Len(response.records) = 2
    /\ response.records[1].id = FixedRecordId
    /\ response.records[2].id = FixedRecordId \o "." \o OrderSuffix
    /\ response.records[1].keyValue = response.records[2].keyValue
    /\ response.records[1].keyValue = FoundEntity

C10_Witness ==
  /\ handler = "event" /\ pc = "returned" /\ EntityFound
  /\ sd.stepOrder = "0" /\ response.outcome = "PASSED"
  /\ response.records[2].id = "event.0"

\* The generic message of each handler's catch block.
GenericErrorFormat ==
  IF handler = "member"
  THEN "There was an error during validation of member field: %s"
  ELSE "There was an error while validating this event field: %s"

\* The fetcher rejected with an error value that carries no 404 status.
RejectedWithoutNotFound ==
  /\ fetched.how = "rejected"
  /\ fetched.err.etype # "nullish"
  /\ fetched.err.status # 404

\* C11: in both handlers, when the input check passes and the fetcher call
\* rejects or throws with an error that carries no HTTP 404 status,
\* executeStep returns ERROR with the handler's generic message, its argument
\* being the underlying error text, and the fetcher is not called again.
C11_RejectedFetchIsGenericError ==
  (Done /\ RejectedWithoutNotFound) =>
    /\ pc = "returned"
    /\ response.outcome = "ERROR"
    /\ response.messageFormat = GenericErrorFormat
    /\ response.messageArgs = <<fetched.err.message>>
    /\ fetchCalls = 1

C11_Witness ==
  /\ handler = "member" /\ pc = "returned" /\ fetched.how = "rejected"
  /\ fetched.err.status = 500 /\ response.outcome = "ERROR"
  /\ response.messageArgs = <<"Request failed with status code 500">>

\* C12: in both handlers, whenever the fetcher rejects with an error whose
\* response status is 404, executeStep returns ERROR and the message format
\* contains the description taken from the remote system's response body.
\* The code breaks this when the body is not JSON: JSON.parse throws inside
\* the catch block (the bug of C1).
C12_NotFoundIsErrorWithDescription ==
  (Done /\ fetched.how = "rejected" /\ fetched.err.status = 404) =>
    /\ pc = "returned"
    /\ response.outcome = "ERROR"
    /\ response.messageFormat = "Not found." \o ": %s"

\* C13 as stated: for any operator string outside the fixed set, with an
\* expectation and the entity found with the field present, executeStep
\* returns ERROR and the message lists the valid operators.
C13_UnknownOperatorIsError ==
  (Done /\ sd.operator # Undefined /\ sd.operator \notin ValidOperators
        /\ ~ExpectationMissing /\ EntityFound /\ FieldIsOwnProperty) =>
    /\ pc = "returned"
    /\ response.outcome = "ERROR"
    /\ response.messageFormat = "%s Please provide one of: %s"
    /\ Len(response.messageArgs) = 2
    /\ response.messageArgs[2] = Join(baseOperators, ", ")

\* C13 amended: the same for any non-empty operator string outside the fixed
\* set, and for an empty one in the member handler; the event handler takes
\* an empty operator string for an absent one and runs the 'be' comparison.
C13_NonEmptyUnknownOperatorIsError ==
  (Done /\ sd.operator # Undefined /\ sd.operator \notin ValidOperators
        /\ ~ExpectationMissing /\ EntityFound /\ FieldIsOwnProperty) =>
    IF handler = "event" /\ sd.operator = ""
    THEN /\ pc = "returned"
         /\ response.outcome =
              IF Compare("be", FoundEntity[sd.field], sd.expectation).valid
              THEN "PASSED" ELSE "FAILED"
    ELSE /\ pc = "returned"
         /\ response.outcome = "ERROR"
         /\ response.messageFormat = "%s Please provide one of: %s"
         /\ Len(response.messageArgs) = 2
         /\ response.messageArgs[2] =
              "be, not be, contain, not contain, be greater than, be less than, "
                \o "be set, not be set, be one of, not be one of, match, not match"

C13_Witness ==
  /\ handler = "event" /\ pc = "returned" /\ sd.operator = "equal"
  /\ EntityFound /\ FieldIsOwnProperty /\ response.outcome = "ERROR"
  /\ Len(cmpLog) = 1

\* C14: with a presence operator ('be set' or 'not be set') and an
\* expectation supplied, the comparison fails with an operand error, so
\* executeStep (entity found, field present) returns ERROR with the operand
\* error's message passed through verbatim, never PASSED or FAILED.
C14_PresenceWithExpectationIsError ==
  (Done /\ sd.operator \in PresenceOperators /\ ~ExpectationMissing
        /\ EntityFound /\ FieldIsOwnProperty) =>
    /\ Len(cmpLog) = 1
    /\ Compare(sd.operator, FoundEntity[sd.field], sd.expectation).err.etype
         = "InvalidOperandError"
    /\ pc = "returned"
    /\ response.outcome = "ERROR"
    /\ response.messageFormat =
         Compare(sd.operator, FoundEntity[sd.field], sd.expectation).err.message
    /\ response.messageArgs = <<>>

C14_Witness ==
  /\ handler = "member" /\ pc = "returned" /\ sd.operator = "not be set"
  /\ sd.expectation = "Expected Value" /\ EntityFound /\ FieldIsOwnProperty
  /\ response.outcome = "ERROR"

\* C15: when a field the step definition declares required (the id field
\* eventId / memberId, or field) is absent from the step data, executeStep
\* returns ERROR, never PASSED or FAILED.  Neither handler checks for them.
C15_RequiredFieldAbsentIsError ==
  (Done /\ (sd.id = Undefined \/ sd.field = Undefined)) =>
    (pc = "returned" /\ response.outcome = "ERROR")

\* The place of each event in the order of one execution; the two ways the
\* fetcher call settles share a place, and so do the two ways executeStep ends.
EventPlace(e) ==
  CASE e = InputCheckEvent -> 1
    [] e = FetchCallEvent -> 2
    [] e \in {FetchResolvedEvent, FetchRejectedEvent} -> 3
    [] e = RecordsEvent -> 4
    [] e = CompareEvent -> 5
    [] e \in {ResponseEvent, ThrowEvent} -> 6

EventCount(e) == Cardinality({i \in DOMAIN events : events[i] = e})

Happened(e) == EventCount(e) > 0

\* C16: within one execution the events happen in a fixed order and at most
\* once each: input check, one fetcher call, record building only after
\* that call has resolved, one comparator call, the response.  The fetcher is
\* never called after the comparator, and while the call is pending no
\* second call is made.
C16_EventsInFixedOrder ==
  /\ \A i, j \in DOMAIN events :
        i < j => EventPlace(events[i]) < EventPlace(events[j])
  /\ events # <<>> => events[1] = InputCheckEvent
  /\ fetchCalls = EventCount(FetchCallEvent) /\ fetchCalls <= 1
  /\ Len(cmpLog) = EventCount(CompareEvent)
  /\ Happened(RecordsEvent) => Happened(FetchResolvedEvent)
  /\ Happened(CompareEvent) => Happened(RecordsEvent)
  /\ (Happened(FetchResolvedEvent) \/ Happened(FetchRejectedEvent))
       => Happened(FetchCallEvent)
  /\ pc = "awaitFetch" => (fetchCalls = 1 /\ events[Len(events)] = FetchCallEvent)
  /\ Done <=> (Happened(ResponseEvent) \/ Happened(ThrowEvent))

\* An execution that went through every event and returned.
C16_Witness ==
  /\ pc = "returned"
  /\ events = <<InputCheckEvent, FetchCallEvent, FetchResolvedEvent,
                RecordsEvent, CompareEvent, ResponseEvent>>

\* What an execution yields when it is the only one: the handler h called
\* with the step s, its fetcher call ending as fetch.
Solo(h, s, fetch) ==
  IF InputCheckFails(h, ToStepData(s))
  THEN Returns(InputError(h, ToStepData(s)), <<>>)
  ELSE TryCatch(h, ToStepData(s), fetch)

RunDone(x) == runs[x].pc \in {"returned", "rejected"}

\* Outcome, message, records, comparator calls and thrown error of execution x.
RunResult(x) ==
  [err |-> runs[x].thrown, resp |-> runs[x].response,
   cmp |-> runs[x].cmp, threw |-> runs[x].pc = "rejected"]

C18_TokenSetsHeaderElseThrows ==
  /\ \A i \in DOMAIN constructed :
       LET c == constructed[i] IN
       /\ (Len(c.auth) = 1 /\ c.auth[1] # "") =>
            (~c.threw /\ c.after.authorization = "Token " \o c.auth[1])
       /\ (c.auth = <<>> \/ c.auth = <<"">>) => (c.threw /\ c.after = c.before)
       /\ c.threw => c.after = c.before
  /\ constructed # <<>> => defaults = constructed[Len(constructed)].after

\* A construction with an empty token threw after one with a token had set
\* the header, and the header is still the one that was set.
C18_Witness ==
  /\ Len(constructed) = 2
  /\ constructed[1].auth = <<"some-api-key">> /\ ~constructed[1].threw
  /\ constructed[2].auth = <<"">> /\ constructed[2].threw
  /\ defaults.authorization = "Token some-api-key"
  /\ defaults.baseURL = "https://customapi.goldcast.io/"

\* C19: the cache is a pure optimisation: whatever the sequence of
\* getEvents / getEventMembers / getEventRegistrants calls, the value a call
\* returns through CachingClientWrapper is the value the wrapped client's
\* call returns at that moment.  A stored value is served for its time to
\* live whatever has become of the remote data.
C19_CachedEqualsUnderlying ==
  cacheCall.n > 0 => cacheCall.returned = cacheCall.current

\* C19 as the code has it: a call that misses the store returns what the
\* wrapped client returns at that moment; a call that hits returns the truthy
\* value the wrapped client returned for the same lookup at the earlier call
\* that last wrote it to the store.
C19_CachedEqualsLastFetched ==
  cacheCall.n > 0 =>
    /\ ~cacheCall.hit => cacheCall.returned = cacheCall.current
    /\ cacheCall.hit =>
         /\ Truthy(cacheCall.returned)
         /\ cacheCall.returned = served[cacheCall.lookup]

\* A second call was answered from the store after the remote member was
\* gone.
C19_Witness ==
  /\ cacheCall.n = 2 /\ cacheCall.hit
  /\ cacheCall.lookup = Lookup("getEventMembers", "e1")
  /\ cacheCall.returned = Resolved("entity", <<ConcEntity>>)
  /\ cacheCall.current = Resolved("null", <<>>)

\* C20: dispatching a request whose stepId matches no registered handler
\* yields a response with outcome ERROR rather than a fault and calls no
\* handler's executeStep; dispatching a registered stepId calls the
\* executeStep of exactly the handler registered under it.
C20_DispatchByStepId ==
  /\ stepId \notin RegisteredStepIds =>
       /\ handler = "none" /\ events = <<>> /\ fetchCalls = 0 /\ thrown = NoErr
       /\ pc \in {"dispatch", "returned"}
       /\ pc = "returned" => response.outcome = "ERROR"
  /\ (stepId \in RegisteredStepIds /\ pc # "dispatch") =>
       /\ handler = (IF stepId = "EventFieldEqualsStep" THEN "event" ELSE "member")
       /\ pc # "start" => EventCount(InputCheckEvent) = 1
       /\ response.messageFormat # NoSuchStep(stepId).messageFormat

\* An unregistered stepId was answered with the ERROR response.
C20_Witness ==
  /\ stepId = "UnknownStep" /\ pc = "returned"
  /\ response = NoSuchStep("UnknownStep")

\* A registered stepId ran its handler to a verdict.
C20_WitnessRegistered ==
  /\ stepId = "EventFieldEqualsStep" /\ pc = "returned"
  /\ handler = "event" /\ response.outcome = "PASSED"

\* C21: when several ClientWrapper instances are constructed with different
\* tokens on the default HTTP client, every request issued through a wrapper
\* carries the Authorization header of the token that wrapper was
\* constructed with, however constructions and requests interleave.  The
\* wrappers share the one client and each construction overwrites its
\* defaults, so a wrapper constructed earlier sends the later token.
C21_RequestCarriesOwnToken ==
  sent.wrapper # 0 =>
    sent.authorization = "Token " \o ArrayToString(constructed[sent.wrapper].auth)

\* Every call in flight is a setCache call, has resolved, and no store
\* command rejected.
OnlySetCacheCallsAllResolved ==
  \A o \in OpIds : ops[o].kind = "setCache" /\ ops[o].pc = "done" /\ ~ops[o].failed

TrackedKeySet ==
  LET keys == GetTrackedKeys(redis, CachePrefix(IdMap), TRUE)
  IN {keys[i] : i \in DOMAIN keys}

\* C22: after any interleaving of concurrent setCache calls under one
\* prefix, every key those calls wrote to the store is in the tracked key
\* list.  Two calls that both read the list before either writes it leave
\* only the key of the call that writes last.
C22_WrittenKeysAreTracked ==
  OnlySetCacheCallsAllResolved =>
    \A o \in OpIds : ops[o].wrote => ops[o].key \in TrackedKeySet

\* C23: when the promise of clearCache resolves, every key that was in the
\* tracked list is gone from the store and the tracked list is empty, so
\* that a cached read under the prefix is then a miss.
C23_ClearCacheLeavesNothing ==
  \A o \in OpIds :
    (ops[o].kind = "clearCache" /\ ops[o].pc = "done") =>
      (ops[o].left = {} /\ ops[o].list = <<>>)


\* C24: two uses of the cache by wrappers whose (scenarioId, requestorId,
\* connectionId) triples differ, or by getEventRegistrants / getEventMembers
\* calls with different ids, never compute the same cache key.
C24_DistinctUsesDistinctKeys ==
  (keyUse.keyA # Undefined
     /\ (\/ keyUse.a.idMap # keyUse.b.idMap
         \/ /\ keyUse.a.lookup.method # "getEvents"
            /\ keyUse.b.lookup.method # "getEvents"
            /\ keyUse.a.lookup.id # keyUse.b.lookup.id))
    => keyUse.keyA # keyUse.keyB

\* The part of C24 about one wrapper: calls with different ids, or of
\* different methods, compute different keys.
SameWrapperDistinctKeys ==
  (keyUse.keyA # Undefined
     /\ keyUse.a.idMap = keyUse.b.idMap
     /\ keyUse.a.lookup # keyUse.b.lookup)
    => keyUse.keyA # keyUse.keyB


\* What getCache yields for the text the store held: the parsed value, null
\* when the store held nothing, undefined when the get rejected.
YieldOf(call) ==
  IF ~call.getOk THEN Resolved("undefined", <<>>)
  ELSE IF call.held = Null THEN Resolved("null", <<>>)
  ELSE ParseValue(call.held)

\* C25: for each cached lookup, if the store yields a truthy value under the
\* lookup's key, that value is returned, the underlying client is not called
\* and the store keeps what it held; otherwise the underlying client is
\* called exactly once, its result is returned, and setCache is called with
\* it if and only if it is truthy: a truthy result is under the key once the
\* writes have succeeded, a falsy one leaves the store as it was.
C25_CachedLookupContract ==
  cacheCall.op = "lookup" =>
    /\ cacheCall.stored = YieldOf(cacheCall)
    /\ IF Truthy(YieldOf(cacheCall))
       THEN /\ cacheCall.returned = ParseValue(cacheCall.held)
            /\ cacheCall.calls = 0
            /\ cacheCall.setCalls = 0
            /\ cacheCall.after = cacheCall.held
       ELSE /\ cacheCall.calls = 1
            /\ cacheCall.returned = cacheCall.current
            /\ (cacheCall.setCalls = 1 <=> Truthy(cacheCall.current))
            /\ (Truthy(cacheCall.current) /\ ~cacheCall.failed)
                 => cacheCall.after = ValueText(cacheCall.current)
            /\ ~Truthy(cacheCall.current) => cacheCall.after = cacheCall.held

\* A lookup found a stored value and returned it without calling the client.
C25_WitnessHit ==
  /\ cacheCall.op = "lookup" /\ cacheCall.hit /\ cacheCall.calls = 0
  /\ cacheCall.held # Null

\* A lookup missed, fetched a truthy result and wrote it to the store.
C25_WitnessMissStored ==
  /\ cacheCall.op = "lookup" /\ ~cacheCall.hit /\ cacheCall.held = Null
  /\ cacheCall.setCalls = 1 /\ cacheCall.after # Null

\* A lookup missed, fetched a falsy result and wrote nothing.
C25_WitnessMissFalsy ==
  /\ cacheCall.op = "lookup" /\ ~cacheCall.hit /\ ~Truthy(cacheCall.current)
  /\ cacheCall.setCalls = 0

C25_Witness ==
  /\ C25_WitnessHit
  /\ cacheCall.getOk /\ ~cacheCall.failed

\* C26: a failure of the cache store never fails a call: when the store's
\* get, setex or del rejects, the promise of the call still resolves; a read
\* that failed is treated as a miss, and the cached lookup returns the
\* underlying client's result.
C26_StoreFailureTolerated ==
  cacheCall.op # "none" =>
    /\ cacheCall.settled = "resolved"
    /\ (cacheCall.op = "lookup" /\ ~cacheCall.getOk) =>
         /\ ~cacheCall.hit
         /\ cacheCall.calls = 1
         /\ cacheCall.returned = cacheCall.current
    /\ (cacheCall.op = "lookup" /\ cacheCall.failed) =>
         cacheCall.returned = cacheCall.current

\* The store held a value, the get rejected, and the lookup returned what
\* the client gave.
C26_Witness ==
  /\ cacheCall.op = "lookup" /\ ~cacheCall.getOk /\ cacheCall.held # Null
  /\ cacheCall.settled = "resolved" /\ cacheCall.returned = cacheCall.current
  /\ Truthy(cacheCall.current)

\* clearCache resolved although its setex or one of its del commands
\* rejected.
C26_WitnessClear ==
  /\ cacheCall.op = "clearCache" /\ cacheCall.failed
  /\ cacheCall.settled = "resolved"

C26_WitnessDel ==
  /\ cacheCall.op = "delCache" /\ cacheCall.failed /\ cacheCall.held # Null
  /\ cacheCall.after = cacheCall.held /\ cacheCall.settled = "resolved"


\* C27: a response carries records only when an entity was found: every
\* ERROR response, and every FAILED response for an entity that was not
\* found or was ambiguous (more than one match), has an empty record list.
C27_RecordsOnlyWhenFound ==
  pc = "returned" =>
    /\ response.outcome = "ERROR" => response.records = <<>>
    /\ (response.outcome = "FAILED" /\ ~EntityFound) => response.records = <<>>
    /\ response.records # <<>> => EntityFound

\* The event handler answered FAILED for an id that two events share.
C27_Witness ==
  /\ handler = "event" /\ pc = "returned" /\ fetched.how = "resolved"
  /\ fetched.data.kind = "list" /\ Cardinality(MatchIndexes) = 2
  /\ response.outcome = "FAILED" /\ response.records = <<>>

\* An ERROR response given after the entity was found: the comparator threw.
C27_WitnessErrorAfterFound ==
  /\ pc = "returned" /\ EntityFound /\ response.outcome = "ERROR"
  /\ cmpLog # <<>> /\ response.records = <<>>


DefinedFalsy == {"", Zero, False}

InputErrorFormat ==
  "The operator '%s' requires an expected value. Please provide one."

\* C28: only a null or absent expectation counts as missing: with an
\* expectation that is defined but falsy ('', 0, false) and any operator, and
\* likewise with an absent expectation and a presence operator, the input
\* check does not answer ERROR and the handler goes on to call the fetcher.
C28_FalsyExpectationIsNotMissing ==
  (pc # "start"
     /\ (\/ sd.expectation \in DefinedFalsy
         \/ ExpectationMissing /\ HandlerOperator \in PresenceOperators)) =>
    /\ fetchCalls = 1
    /\ SubSeq(events, 1, 2) = <<InputCheckEvent, FetchCallEvent>>
    /\ pc = "returned" => response.messageFormat # InputErrorFormat

\* The event handler with the expectation 0 and the operator 'be' called the
\* fetcher and went on to the comparison.
C28_Witness ==
  /\ handler = "event" /\ pc = "returned" /\ sd.expectation = Zero
  /\ sd.operator = "be" /\ fetchCalls = 1 /\ Len(cmpLog) = 1
  /\ response.outcome = "FAILED"

C28_WitnessEmptyString ==
  /\ handler = "member" /\ pc = "awaitFetch" /\ sd.expectation = ""
  /\ sd.operator = Undefined /\ fetchCalls = 1

C28_WitnessPresence ==
  /\ handler = "member" /\ pc = "returned" /\ sd.expectation = Undefined
  /\ sd.operator = "not be set" /\ fetchCalls = 1

=============================================================================
